---------------------------- MODULE Spec2Model ----------------------------
(***************************************************************************)
(* A model of go-logrotate's Logger (src/logrotate.go): the size-triggered *)
(* rotation done by Write/Rotate/Close under the Logger's mutex, the       *)
(* backup naming (ordinal "foobar.log.N" or timestamp                      *)
(* "foobar-<time>.log"), and the retention pass (millRunOnce) run by the   *)
(* background goroutine fed through the capacity-1 channel millCh.         *)
(*                                                                         *)
(* File names are sequences of tokens <<text, number>>; a token whose text *)
(* starts with "." is a dot-component (what filepath.Ext can return).      *)
(* File contents are sequences of byte values; every Write call writes     *)
(* bytes carrying that call's number, so contents identify their writes.   *)
(***************************************************************************)
EXTENDS Integers, Sequences, FiniteSets, TLC

VARIABLES
    cfg,        \* the Logger's exported fields (never assigned by the code), and
                \* the clock of its machine: zone, the offset of local time from
                \* UTC, and day, the length of 24 hours, in units of the clock
    dir,        \* the log directory: file name -> [data, gz, mtime]
    file,       \* l.file: "nil" or "open"
    size,       \* l.size
    millCh,     \* number of requests in l.millCh (capacity 1)
    started,    \* l.startMill (a sync.Once) has fired
    goroutines, \* number of `go l.millRun()` statements executed
    worker,     \* where millRun is: "idle" (at the receive) or "busy" (in a pass)
    now,        \* the reading of currentTime()
    calls,      \* number of Write/Rotate calls made so far
    retired,    \* history: <<[name, data]>> of every rename done by openNew
    last,       \* history: the last step taken and what it returned
    faults,     \* number of system-call failures the environment may still cause
    mu,         \* l.mu: 0 when unlocked, else the caller holding it
    pc          \* where each caller is: "out" of any method, or "in" one, past Lock

vars == <<cfg, dir, file, size, millCh, started, goroutines, worker, now, calls, retired,
          last, faults, mu, pc>>

----------------------------------------------------------------------------
(* Bounds of the model. *)

\* Write lengths tried: 1..MaxLen.
MaxLen == 4
\* Write and Rotate calls per behaviour.
MaxCalls == 3
\* The clock advances at most MaxTicks times.
MaxTicks == 1
\* The clock reading when the Logger is constructed (in days).
Now0 == 3
\* System-call failures per behaviour, where the environment causes any.
MaxFaults == 1
\* Goroutines calling the Logger's methods, where callers are told apart.
MaxCallers == 2

(* Program constants. *)

\* defaultMaxSize: megabytes used when MaxBytes is 0.
defaultMaxSize == 100
\* megabyte: the conversion factor of defaultMaxSize.
megabyte == 1048576

----------------------------------------------------------------------------
(* File names. *)

Base == <<"foobar", 0>>
Dash == <<"-", 0>>
ExtLog == <<".log", 0>>
ExtOld == <<".old", 0>>
OldDash == <<"old-", 0>>
compressSuffix == <<".gz", 0>>
Num(n) == <<".#", n>>
Stamp(t) == <<"time", t>>

IsDot(tok) == tok[1] \in {".log", ".gz", ".#", ".old"}

\* Logger.Filename as the tests configure it: foobar.log
FoobarLog == <<Base, ExtLog>>

\* Logger.Filename
Filename == cfg.Filename

HasPrefix(s, p) == Len(p) <= Len(s) /\ SubSeq(s, 1, Len(p)) = p
HasSuffix(s, p) == Len(p) <= Len(s) /\ SubSeq(s, Len(s) - Len(p) + 1, Len(s)) = p
TrimSuffix(s, p) == IF HasSuffix(s, p) THEN SubSeq(s, 1, Len(s) - Len(p)) ELSE s

\* filepath.Ext: the suffix beginning at the final dot ("" if there is none).
Ext(name) ==
    IF name # <<>> /\ IsDot(name[Len(name)]) THEN <<name[Len(name)]>> ELSE <<>>

----------------------------------------------------------------------------
(* Naming: prefixAndExt, orderFromName, timeFromName, backupName. *)

\* prefixAndExt: in timestamp mode the name is split at its extension and
\* "-" is appended to the front part; in ordinal mode the whole file name is
\* the prefix and ext is empty.
prefixAndExt ==
    IF cfg.timeMode
    THEN [prefix |-> SubSeq(Filename, 1, Len(Filename) - Len(Ext(Filename))) \o <<Dash>>,
          ext |-> Ext(Filename)]
    ELSE [prefix |-> Filename, ext |-> <<>>]

\* strconv.Atoi(strings.TrimPrefix(strOrder, ".")): succeeds on one ".N".
Atoi(strOrder) ==
    IF Len(strOrder) = 1 /\ strOrder[1][1] = ".#"
    THEN [err |-> FALSE, order |-> strOrder[1][2]]
    ELSE [err |-> TRUE, order |-> 0]

\* orderFromName: with ext = "" the order is read from filepath.Ext(filename).
orderFromName(filename, prefix, ext) ==
    IF ~HasPrefix(filename, prefix) THEN [err |-> TRUE, order |-> 0]
    ELSE IF ~HasSuffix(filename, ext) THEN [err |-> TRUE, order |-> 0]
    ELSE IF ext # <<>>
         THEN Atoi(SubSeq(filename, Len(prefix) + 1, Len(filename) - Len(ext)))
         ELSE Atoi(Ext(filename))

\* The wall clock reading t.Format prints for the instant t: that of the
\* local zone as currentTime() returns it, that of UTC after t.UTC().
WallClock(t, local) == IF local THEN t + cfg.zone ELSE t

\* t.Format(FilenameTimeFormat) for the wall clock reading t; the format
\* names no zone.
Format(t) == Stamp(t)

\* time.Parse(FilenameTimeFormat, ts): succeeds on one formatted time, and
\* takes the wall clock reading it finds for one of UTC.
Parse(ts) ==
    IF Len(ts) = 1 /\ ts[1][1] = "time"
    THEN [err |-> FALSE, t |-> ts[1][2]]
    ELSE [err |-> TRUE, t |-> 0]

\* timeFromName: strips prefix and ext and parses what is between them.
timeFromName(filename, prefix, ext) ==
    IF ~HasPrefix(filename, prefix) THEN [err |-> TRUE, t |-> 0]
    ELSE IF ~HasSuffix(filename, ext) THEN [err |-> TRUE, t |-> 0]
    ELSE Parse(SubSeq(filename, Len(prefix) + 1, Len(filename) - Len(ext)))

\* The case analysis of the loop body of oldLogFiles: is this directory entry
\* a backup of this log, and with which timestamp.
\* Timestamp mode accepts the name with ext and with ext+".gz"; ordinal mode
\* accepts only what orderFromName(name, prefix, "") accepts and takes the
\* file's modification time (getFileTimeInfo).
classify(d, name) ==
    LET pe == prefixAndExt IN
    IF cfg.timeMode
    THEN LET t1 == timeFromName(name, pe.prefix, pe.ext)
             t2 == timeFromName(name, pe.prefix, pe.ext \o <<compressSuffix>>)
         IN  IF ~t1.err THEN [ok |-> TRUE, timestamp |-> t1.t]
             ELSE IF ~t2.err THEN [ok |-> TRUE, timestamp |-> t2.t]
             ELSE [ok |-> FALSE, timestamp |-> 0]
    ELSE IF ~orderFromName(name, pe.prefix, pe.ext).err
         THEN [ok |-> TRUE, timestamp |-> d[name].mtime]
         ELSE [ok |-> FALSE, timestamp |-> 0]

\* The logInfo values oldLogFiles collects (before sorting); directories are
\* skipped.
logFiles(d) ==
    {[name |-> n, timestamp |-> classify(d, n).timestamp] :
        n \in {m \in DOMAIN d : ~d[m].isDir /\ classify(d, m).ok}}

\* byBirthTime.Less: newest first.
Less(a, b) == a.timestamp > b.timestamp

\* sort.Sort(byBirthTime(logFiles)): every order of S in which no element
\* comes before one that is Less than it (sort.Sort is not stable: files
\* with equal timestamps come out in any order).
RECURSIVE sorted(_)
sorted(S) ==
    IF S = {} THEN {<<>>}
    ELSE UNION {{<<x>> \o s : s \in sorted(S \ {x})} :
                    x \in {y \in S : \A z \in S : ~Less(z, y)}}

\* oldLogFiles: the possible results for directory d.
oldLogFiles(d) == sorted(logFiles(d))

\* The largest order among the uncompressed names of oldFiles (0 if none):
\* the loop of backupName.
maxBackupOrder(oldFiles) ==
    LET pe == prefixAndExt
        orders == {orderFromName(f.name, pe.prefix, pe.ext).order :
                     f \in {g \in oldFiles :
                              /\ ~HasSuffix(g.name, <<compressSuffix>>)
                              /\ ~orderFromName(g.name, pe.prefix, pe.ext).err}}
    IN  IF orders = {} THEN 0
        ELSE CHOOSE o \in orders : \A p \in orders : p <= o

\* A faulty variant of backupName: the ordinal is not incremented.
backupName_noIncrement(d, t) ==
    LET pe == prefixAndExt IN
    IF cfg.timeMode
    THEN pe.prefix \o <<Format(WallClock(t, cfg.LocalTime))>> \o pe.ext
    ELSE pe.prefix \o pe.ext \o <<Num(maxBackupOrder(logFiles(d)))>>

\* backupName: <prefix><timestamp><ext>, or <prefix><ext>.<max order + 1>.
backupName(d, t) ==
    LET pe == prefixAndExt IN
    IF cfg.timeMode
    THEN pe.prefix \o <<Format(WallClock(t, cfg.LocalTime))>> \o pe.ext
    ELSE pe.prefix \o pe.ext \o <<Num(maxBackupOrder(logFiles(d)) + 1)>>

\* max: the maximum size of the log file before rolling, for tracked size sz.
max(sz, writeLen) ==
    IF cfg.MaxBytes # 0
    THEN IF cfg.MaxBytes = -1 THEN writeLen + sz + 1 ELSE cfg.MaxBytes
    ELSE defaultMaxSize * megabyte

----------------------------------------------------------------------------
(* The file system calls the Logger makes, on a directory d. *)

\* A directory entry: its bytes (what gunzip gives back when gz), whether the
\* bytes on disk are their gzip encoding, its modification time, and whether
\* it is a directory.  The program reads a modification time only of a name
\* orderFromName accepts (getFileTimeInfo in oldLogFiles); the time of any
\* other file is not tracked (0).  mode is the permission bits it was
\* created with.
defaultMode == "0600"

leftoverMode == "0644"

NewFile == [data |-> <<>>, gz |-> FALSE, mtime |-> 0, isDir |-> FALSE,
            mode |-> defaultMode]

Exists(d, name) == name \in DOMAIN d

Put(d, name, f) == [n \in DOMAIN d \cup {name} |-> IF n = name THEN f ELSE d[n]]

\* os.Remove (a missing file is an error the callers here ignore).
Remove(d, name) == [n \in DOMAIN d \ {name} |-> d[n]]

\* os.Rename: newname is replaced if it exists.
Rename(d, name, newname) == Put(Remove(d, name), newname, d[name])

\* os.Chtimes(name, t, t)
Chtimes(d, name, t) == [d EXCEPT ![name].mtime = t]

\* The modification time the system gives a file it creates or appends to
\* at time t, kept where the program can read it.
Touched(name, t) ==
    IF ~cfg.timeMode /\ ~orderFromName(name, prefixAndExt.prefix, prefixAndExt.ext).err
    THEN t ELSE 0

\* A write through a handle opened on name: the bytes are appended to the
\* file; if the name has been removed since, they go to a file that no name
\* leads to.
Appended(d, name, bytes, t) ==
    IF Exists(d, name)
    THEN [d EXCEPT ![name].data = @ \o bytes, ![name].mtime = Touched(name, t)]
    ELSE d

\* info.Size() of a file of d.
FileSize(d, name) == Len(d[name].data)

----------------------------------------------------------------------------
(* The Logger's methods, as functions of the Logger-and-directory state    *)
(* st = [dir, file, size, millCh, started, goroutines, retired, rotations, *)
(* err, fault, short, fellBack, blocked].  st.fault is the system call the *)
(* environment makes fail in this call ("none" once it has failed),        *)
(* st.short the bytes a failing write still appends, st.err the error the  *)
(* method returned, st.blocked whether the caller is waiting for the       *)
(* worker.                                                                 *)
(* A method's intermediate states are bound one after the other the way    *)
(* its statements run: in {F(x) : x \in {e}}, x is the value of e.          *)

Only(S) == CHOOSE x \in S : TRUE

\* The method returns err; the failure the environment had in store is used.
Fails(st, err) == [st EXCEPT !.err = err, !.fault = "none"]

\* A faulty variant of mill: a goroutine is started by every call.
mill_noOnce(st) ==
    [st EXCEPT !.goroutines = @ + 1, !.started = TRUE, !.millCh = 1]

\* A faulty variant of mill: requests queue up behind one another.
mill_queued(st) ==
    [st EXCEPT !.goroutines = IF st.started THEN @ ELSE @ + 1, !.started = TRUE,
               !.millCh = st.millCh + 1]

\* A faulty variant of mill: the goroutine is started, no request is sent.
mill_noRequest(st) ==
    [st EXCEPT !.goroutines = IF st.started THEN @ ELSE @ + 1, !.started = TRUE]

\* A faulty variant of mill: the send waits while the channel is full.
mill_blockingSend(st) ==
    [st EXCEPT !.goroutines = IF st.started THEN @ ELSE @ + 1, !.started = TRUE,
               !.millCh = 1, !.blocked = (st.millCh = 1)]

\* mill: start the goroutine once (startMill.Do); send without blocking (a request is
\* dropped when one is already in the channel).
mill(st) ==
    [st EXCEPT !.goroutines = IF st.started THEN @ ELSE @ + 1, !.started = TRUE,
               !.millCh = 1]

\* A faulty variant of close: the handle is kept when closing it fails, and
\* closing without a handle is an error.
close_keepsHandle(st) ==
    IF st.file = "nil" THEN Fails(st, "close")
    ELSE IF st.fault = "close" THEN Fails(st, "close")
    ELSE [st EXCEPT !.file = "nil"]

\* A faulty variant of close: the request channel is closed too, which
\* drops a pending request and ends the worker's loop.
close_closesChannel(st) ==
    IF st.file = "nil" THEN [st EXCEPT !.millCh = 0, !.started = FALSE]
    ELSE IF st.fault = "close"
         THEN Fails([st EXCEPT !.file = "nil", !.millCh = 0, !.started = FALSE], "close")
    ELSE [st EXCEPT !.file = "nil", !.millCh = 0, !.started = FALSE]

\* close: nothing without a handle; else the handle is released, whether or
\* not closing it fails.
close(st) ==
    IF st.file = "nil" THEN st
    ELSE IF st.fault = "close" THEN Fails([st EXCEPT !.file = "nil"], "close")
    ELSE [st EXCEPT !.file = "nil"]

\* chown(name, info): ownership is propagated best effort; no file's content
\* changes.
chown(d, name) == d

\* os.Rename fails when the environment makes it fail, or when newname is a
\* directory.
renameFails(st, newname) ==
    \/ st.fault = "rename"
    \/ Exists(st.dir, newname) /\ st.dir[newname].isDir

\* The files that the pass which has just run removed or compressed away.
\* The pass takes no lock: a call that comes right after it in the model can
\* have read the directory (os.ReadDir in oldLogFiles) before the pass took
\* these files away, and ask for their f.Info() after.
JustGone == IF last.op = "mill" THEN last.gone ELSE {}

\* A faulty variant of openNew: a file created where there was none is
\* tracked at the size the Logger last knew.
openNew_keepsSize(st) ==
    LET name == Filename
        newname == backupName(st.dir, now)
        moved == Rename(st.dir, name, newname)
        stamped == IF cfg.timeMode THEN moved ELSE Chtimes(moved, newname, now)
        r1 == Append(st.retired, [name |-> newname, data |-> st.dir[name].data])
        mode == IF Exists(st.dir, name) THEN st.dir[name].mode ELSE defaultMode
        created == [NewFile EXCEPT !.mtime = Touched(name, now), !.mode = mode]
    IN  IF st.fault = "mkdir" THEN Fails(st, "mkdir")
        ELSE IF ~Exists(st.dir, name)
             THEN IF st.fault = "open" THEN Fails(st, "open")
                  ELSE [st EXCEPT !.dir = Put(st.dir, name, created),
                                  !.file = "open"]
        ELSE IF ~cfg.timeMode /\ st.fault = "info" /\ JustGone # {}
             THEN Fails(st, "info")
        ELSE IF renameFails(st, newname) THEN Fails(st, "rename")
        ELSE IF ~cfg.timeMode /\ st.fault = "chtimes"
             THEN Fails([st EXCEPT !.dir = moved, !.retired = r1], "chtimes")
        ELSE IF st.fault = "open"
             THEN Fails([st EXCEPT !.dir = chown(stamped, name), !.retired = r1],
                        "open")
        ELSE [st EXCEPT !.dir = Put(chown(stamped, name), name, created),
                        !.retired = r1,
                        !.file = "open",
                        !.size = 0]

\* openNew: make the directory, move the file at Filename (if any) to its
\* backup name, stamp the backup's times in ordinal mode, then create or
\* truncate Filename and track size 0.  A failing step returns at once.
\* In ordinal mode backupName lists the directory: f.Info() of an entry that
\* vanished since the listing is an error, which openNew returns.
openNew(st) ==
    LET name == Filename
        newname == backupName(st.dir, now)
        moved == Rename(st.dir, name, newname)
        stamped == IF cfg.timeMode THEN moved ELSE Chtimes(moved, newname, now)
        r1 == Append(st.retired, [name |-> newname, data |-> st.dir[name].data])
        mode == IF Exists(st.dir, name) THEN st.dir[name].mode ELSE defaultMode
        created == [NewFile EXCEPT !.mtime = Touched(name, now), !.mode = mode]
    IN  IF st.fault = "mkdir" THEN Fails(st, "mkdir")
        ELSE IF ~Exists(st.dir, name)
             THEN IF st.fault = "open" THEN Fails(st, "open")
                  ELSE [st EXCEPT !.dir = Put(st.dir, name, created),
                                  !.file = "open", !.size = 0]
        ELSE IF ~cfg.timeMode /\ st.fault = "info" /\ JustGone # {}
             THEN Fails(st, "info")
        ELSE IF renameFails(st, newname) THEN Fails(st, "rename")
        ELSE IF ~cfg.timeMode /\ st.fault = "chtimes"
             THEN Fails([st EXCEPT !.dir = moved, !.retired = r1], "chtimes")
        ELSE IF st.fault = "open"
             THEN Fails([st EXCEPT !.dir = chown(stamped, name), !.retired = r1],
                        "open")
        ELSE [st EXCEPT !.dir = Put(chown(stamped, name), name, created),
                        !.retired = r1,
                        !.file = "open",
                        !.size = 0]

\* A faulty variant of rotate: the handle is not closed first.
rotate_noClose(st) ==
    Only({IF opened.err # "nil" THEN opened
          ELSE [mill(opened) EXCEPT !.rotations = st.rotations + 1] :
            opened \in {openNew(st)}})

\* rotate: close, openNew, mill; the first error is returned.
rotate(st) ==
    Only({IF closed.err # "nil" THEN closed
          ELSE Only({IF opened.err # "nil" THEN opened
                     ELSE [mill(opened) EXCEPT !.rotations = st.rotations + 1] :
                       opened \in {openNew(closed)}}) :
            closed \in {close(st)}})

\* A faulty variant of resumeWouldOverflow: ">" for ">=".
resumeWouldOverflow_strict(infoSize, sz, writeLen) ==
    infoSize + writeLen > max(sz, writeLen)

\* The test of openExistingOrNew on the existing file's size.
resumeWouldOverflow(infoSize, sz, writeLen) ==
    infoSize + writeLen >= max(sz, writeLen)

\* A faulty variant of openExistingOrNew: no retention pass is requested.
openExistingOrNew_noMill(st, writeLen) ==
    Only({IF ~Exists(st1.dir, Filename) THEN openNew(st1)
          ELSE IF st1.fault = "stat" THEN Fails(st1, "stat")
          ELSE IF resumeWouldOverflow(FileSize(st1.dir, Filename), st1.size, writeLen)
               THEN rotate(st1)
          ELSE IF st1.fault = "openappend"
               THEN Only({openNew(st2) :
                            st2 \in {[st1 EXCEPT !.fault = "none", !.fellBack = TRUE]}})
          ELSE [st1 EXCEPT !.file = "open", !.size = FileSize(st1.dir, Filename)] :
            st1 \in {st}})

\* A faulty variant of openExistingOrNew: a failure to open the file for
\* appending is returned.
openExistingOrNew_givesUp(st, writeLen) ==
    Only({IF ~Exists(st1.dir, Filename) THEN openNew(st1)
          ELSE IF st1.fault = "stat" THEN Fails(st1, "stat")
          ELSE IF resumeWouldOverflow(FileSize(st1.dir, Filename), st1.size, writeLen)
               THEN rotate(st1)
          ELSE IF st1.fault = "openappend" THEN Fails(st1, "openappend")
          ELSE [st1 EXCEPT !.file = "open", !.size = FileSize(st1.dir, Filename)] :
            st1 \in {mill(st)}})

\* openExistingOrNew: request a retention pass; create the file if there is
\* none; rotate if the existing file cannot take the write; else open it for
\* appending, and if that fails fall back to openNew.
openExistingOrNew(st, writeLen) ==
    Only({IF ~Exists(st1.dir, Filename) THEN openNew(st1)
          ELSE IF st1.fault = "stat" THEN Fails(st1, "stat")
          ELSE IF resumeWouldOverflow(FileSize(st1.dir, Filename), st1.size, writeLen)
               THEN rotate(st1)
          ELSE IF st1.fault = "openappend"
               THEN Only({openNew(st2) :
                            st2 \in {[st1 EXCEPT !.fault = "none", !.fellBack = TRUE]}})
          ELSE [st1 EXCEPT !.file = "open", !.size = FileSize(st1.dir, Filename)] :
            st1 \in {mill(st)}})

\* A faulty variant of tooLong: the length is compared with the default maximum.
tooLong_ignoresMaxBytes(sz, writeLen) == writeLen > defaultMaxSize * megabyte

\* The first test of Write: the write alone exceeds the maximum.
tooLong(sz, writeLen) == writeLen > max(sz, writeLen)

\* A faulty variant of writeWouldOverflow: the tracked size alone is compared.
writeWouldOverflow_sizeOnly(sz, writeLen) == sz > max(sz, writeLen)

\* The second test of Write: the write would overflow the open file.
writeWouldOverflow(sz, writeLen) == sz + writeLen > max(sz, writeLen)

\* n, err = l.file.Write(p); l.size += int64(n): the handle appends p to the
\* file it was opened on; a write that fails has appended the first
\* st.short bytes of p.
fileWrite(st, p) ==
    IF st.fault = "write"
    THEN Fails([st EXCEPT !.dir = Appended(@, Filename, SubSeq(p, 1, st.short), now),
                          !.size = @ + st.short],
               "write")
    ELSE [st EXCEPT !.dir = Appended(@, Filename, p, now), !.size = @ + Len(p)]

\* A faulty variant of write: a write that would overflow the file puts its
\* first byte in the old file, rotates and writes the rest to the new file.
write_fillsUp(st, p) ==
    Only({IF st1.err # "nil" THEN st1
          ELSE IF ~writeWouldOverflow(st1.size, Len(p)) THEN fileWrite(st1, p)
          ELSE Only({IF st3.err # "nil" THEN st3 ELSE fileWrite(st3, Tail(p)) :
                       st3 \in {rotate(st2) : st2 \in {fileWrite(st1, <<Head(p)>>)}}}) :
            st1 \in {IF st.file = "nil" THEN openExistingOrNew(st, Len(p)) ELSE st}})

\* Write, for a write that is not too long: open or resume the file if no
\* handle is open, rotate if the write would overflow it, write.  An error
\* of either step is returned with 0 bytes written; an error of the write
\* itself with the bytes it wrote.
write(st, p) ==
    Only({IF st2.err # "nil" THEN st2 ELSE fileWrite(st2, p) :
            st2 \in {IF st1.err = "nil" /\ writeWouldOverflow(st1.size, Len(p))
                     THEN rotate(st1) ELSE st1 :
                        st1 \in {IF st.file = "nil"
                                 THEN openExistingOrNew(st, Len(p)) ELSE st}}})

----------------------------------------------------------------------------
(* The retention pass: millRunOnce and compressLogFile. *)

\* The steps of compressLogFile that can fail, in the order they run.
CompressSteps == {"opensrc", "stat", "chown", "opendst", "copy", "removesrc"}

\* The mode of dst after os.OpenFile(dst, O_CREATE|O_TRUNC|O_WRONLY,
\* fi.Mode()): src's mode if dst is created, its own if it was there.
dstMode(d, src, dst) == IF Exists(d, dst) THEN d[dst].mode ELSE d[src].mode

\* A faulty variant of compressLogFile: a failure after dst was opened
\* leaves dst behind.
compressLogFile_keepsPartial(d, src, dst, step) ==
    IF ~Exists(d, src) \/ step \in {"opensrc", "stat", "chown", "opendst"} THEN d
    ELSE IF Exists(d, dst) /\ d[dst].isDir THEN d
    ELSE IF step \in {"copy", "removesrc"}
         THEN Put(d, dst, [NewFile EXCEPT !.gz = TRUE, !.mtime = now,
                                          !.mode = dstMode(d, src, dst)])
    ELSE Put(Remove(d, src), dst,
             [data |-> d[src].data, gz |-> TRUE, mtime |-> now, isDir |-> FALSE,
              mode |-> dstMode(d, src, dst)])

\* compressLogFile(src, dst), with the step that fails ("none" if none).
\* Opening or stat-ing src, the chown, or opening dst fails: nothing changes
\* (a missing src, or a directory at dst, is such a failure).  dst is created
\* or truncated; if copying fails, or removing src fails, dst is removed
\* again and src is left.  Otherwise dst holds the gzip encoding of src's
\* bytes and src is removed.
compressLogFile(d, src, dst, step) ==
    IF ~Exists(d, src) \/ step \in {"opensrc", "stat", "chown", "opendst"} THEN d
    ELSE IF Exists(d, dst) /\ d[dst].isDir THEN d
    ELSE IF step \in {"copy", "removesrc"} THEN Remove(chown(d, dst), dst)
    ELSE Put(Remove(d, src), dst,
             [data |-> d[src].data, gz |-> TRUE, mtime |-> now, isDir |-> FALSE,
              mode |-> dstMode(d, src, dst)])

\* The loop of millRunOnce that enforces MaxBackups on files[i..]: a name
\* and its ".gz" form are one entry of preserved; a file is removed when
\* preserved has grown beyond MaxBackups.
RECURSIVE countWalk(_, _, _, _, _)
countWalk(files, i, preserved, remove, remaining) ==
    IF i > Len(files) THEN [remove |-> remove, remaining |-> remaining]
    ELSE LET f == files[i]
             fn == TrimSuffix(f.name, <<compressSuffix>>)
             pres == preserved \cup {fn}
         IN  IF Cardinality(pres) > cfg.MaxBackups
             THEN countWalk(files, i + 1, pres, Append(remove, f), remaining)
             ELSE countWalk(files, i + 1, pres, remove, Append(remaining, f))

\* The count stage: runs only when 0 < MaxBackups < len(files).
countStage(files) ==
    IF cfg.MaxBackups > 0 /\ cfg.MaxBackups < Len(files)
    THEN countWalk(files, 1, {}, <<>>, <<>>)
    ELSE [remove |-> <<>>, remaining |-> files]

\* f.timestamp.Before(cutoff), cutoff = currentTime() - MaxAge days.
tooOld(f, t) == f.timestamp < t - cfg.MaxAge * cfg.day

RECURSIVE ageWalk(_, _, _, _, _)
ageWalk(files, i, t, remove, remaining) ==
    IF i > Len(files) THEN [remove |-> remove, remaining |-> remaining]
    ELSE IF tooOld(files[i], t)
         THEN ageWalk(files, i + 1, t, Append(remove, files[i]), remaining)
         ELSE ageWalk(files, i + 1, t, remove, Append(remaining, files[i]))

\* The age stage: runs only when MaxAge > 0, on what the count stage kept.
ageStage(c, t) ==
    IF cfg.MaxAge > 0
    THEN ageWalk(c.remaining, 1, t, c.remove, <<>>)
    ELSE c

RECURSIVE toCompress(_, _)
toCompress(files, i) ==
    IF i > Len(files) THEN <<>>
    ELSE IF ~HasSuffix(files[i].name, <<compressSuffix>>)
         THEN <<files[i]>> \o toCompress(files, i + 1)
         ELSE toCompress(files, i + 1)

\* The compress stage: with Compress, every kept file without ".gz".
compressStage(files) == IF cfg.Compress THEN toCompress(files, 1) ELSE <<>>

\* The remove and compress lists millRunOnce builds from the list oldLogFiles
\* returned (both empty when no limit is set and Compress is off).
millPlan(files, t) ==
    IF cfg.MaxBackups = 0 /\ cfg.MaxAge = 0 /\ ~cfg.Compress
    THEN [remove |-> <<>>, compress |-> <<>>]
    ELSE Only({[remove |-> a.remove, compress |-> compressStage(a.remaining)] :
                a \in {ageStage(countStage(files), t)}})

\* A faulty variant of removeAll: the loop ends at the first failure.
RECURSIVE removeAll_stopsAtFailure(_, _, _, _)
removeAll_stopsAtFailure(d, remove, i, rf) ==
    IF i > Len(remove) \/ i \in rf THEN d
    ELSE removeAll_stopsAtFailure(Remove(d, remove[i].name), remove, i + 1, rf)

\* The removals, one after the other; os.Remove fails for remove[i] when
\* i \in rf, and the loop goes on.
RECURSIVE removeAll(_, _, _, _)
removeAll(d, remove, i, rf) ==
    IF i > Len(remove) THEN d
    ELSE removeAll(IF i \in rf THEN d ELSE Remove(d, remove[i].name),
                   remove, i + 1, rf)

\* No error, and the error of an operation on a file.
NoErr == [op |-> "nil", name |-> <<>>]

\* The removal loop's `if err == nil && errRemove != nil { err = errRemove }`.
RECURSIVE removeErr(_, _, _, _)
removeErr(err, remove, i, rf) ==
    IF i > Len(remove) THEN err
    ELSE removeErr(IF err = NoErr /\ i \in rf
                   THEN [op |-> "remove", name |-> remove[i].name] ELSE err,
                   remove, i + 1, rf)

\* The compression loop's `if err == nil && errCompress != nil { err = errCompress }`.
RECURSIVE compressErr(_, _, _, _)
compressErr(err, compress, i, cf) ==
    IF i > Len(compress) THEN err
    ELSE compressErr(IF err = NoErr /\ i = cf.at
                     THEN [op |-> "compress", name |-> compress[i].name] ELSE err,
                     compress, i + 1, cf)

\* The error millRunOnce returns.
millErr(files, t, rf, cf) ==
    Only({compressErr(removeErr(NoErr, plan.remove, 1, rf), plan.compress, 1, cf) :
            plan \in {millPlan(files, t)}})

\* The compressions, one after the other; cf = [at, step] makes step fail
\* in the compression of compress[at] (at = 0: none fails).
RECURSIVE compressAll(_, _, _, _)
compressAll(d, compress, i, cf) ==
    IF i > Len(compress) THEN d
    ELSE compressAll(
            compressLogFile(d, compress[i].name,
                            compress[i].name \o <<compressSuffix>>,
                            IF cf.at = i THEN cf.step ELSE "none"),
            compress, i + 1, cf)

\* millRunOnce on directory d, given the list oldLogFiles returned and the
\* failures rf of removals and cf of a compression.
millRunOnce(d, files, t, rf, cf) ==
    Only({compressAll(removeAll(d, plan.remove, 1, rf), plan.compress, 1, cf) :
            plan \in {millPlan(files, t)}})

----------------------------------------------------------------------------
(* The state machine. *)

Logger == [dir |-> dir, file |-> file, size |-> size, millCh |-> millCh,
           started |-> started, goroutines |-> goroutines, retired |-> retired,
           rotations |-> 0,
           err |-> "nil", fault |-> "none", short |-> 0, fellBack |-> FALSE,
           blocked |-> FALSE]

\* All the assignments one call of a Logger method makes.
Becomes(st) ==
    /\ dir' = st.dir
    /\ file' = st.file
    /\ size' = st.size
    /\ millCh' = st.millCh
    /\ started' = st.started
    /\ goroutines' = st.goroutines
    /\ retired' = st.retired

\* The bytes of call number c, for a write of writeLen bytes.
Bytes(c, writeLen) == [i \in 1..writeLen |-> c]

\* What last records of a step: a call's returned n and err, the rotations
\* it completed, whether a handle was open before; for a retention pass the
\* backup whose compression failed and the failing step, and the names the
\* pass took out of the directory; for a call whether it could not open the
\* file for appending and went on with openNew.
Did(op) == [op |-> op, len |-> 0, n |-> 0, err |-> "nil", rotations |-> 0,
            wasOpen |-> file = "open", failed |-> <<>>, step |-> "none",
            gone |-> {}, fellBack |-> FALSE]

\* The system calls of a Logger method the environment can make fail now
\* ("info": the scheduling lets a pass fall between a listing and f.Info()).
CallFaults ==
    IF faults > 0
    THEN {"none", "mkdir", "rename", "chtimes", "open", "close", "stat", "openappend",
          "info", "write"}
    ELSE {"none"}

\* The call ran with failure fault in store: it went through (no waiting for
\* the worker) and the failure, if any, happened.
Ran(st, fault) ==
    /\ ~st.blocked
    /\ st.fault = "none"
    /\ faults' = IF fault = "none" THEN faults ELSE faults - 1
    /\ Becomes(st)

\* Write(p), from after l.mu.Lock() to the deferred l.mu.Unlock().
WriteLocked(writeLen) ==
    /\ calls < MaxCalls
    /\ calls' = calls + 1
    /\ \E fault \in CallFaults, short \in 0..(writeLen - 1) :
         \E st \in {IF tooLong(size, writeLen) THEN [Logger EXCEPT !.fault = fault]
                    ELSE write([Logger EXCEPT !.fault = fault, !.short = short],
                               Bytes(calls + 1, writeLen))} :
           /\ fault # "write" => short = 0
           /\ Ran(st, fault)
           /\ last' = [Did("Write") EXCEPT
                         !.len = writeLen,
                         !.fellBack = st.fellBack,
                         !.n = IF tooLong(size, writeLen) THEN 0
                               ELSE IF st.err = "write" THEN short
                               ELSE IF st.err # "nil" THEN 0
                               ELSE writeLen,
                         !.err = IF tooLong(size, writeLen) THEN "toolong" ELSE st.err,
                         !.rotations = st.rotations]
    /\ UNCHANGED <<cfg, now, worker>>

\* Rotate(), from after l.mu.Lock() to the deferred l.mu.Unlock().
RotateLocked ==
    /\ calls < MaxCalls
    /\ calls' = calls + 1
    /\ \E fault \in CallFaults :
         \E st \in {rotate([Logger EXCEPT !.fault = fault])} :
           /\ Ran(st, fault)
           /\ last' = [Did("Rotate") EXCEPT !.err = st.err,
                                           !.rotations = st.rotations]
    /\ UNCHANGED <<cfg, now, worker>>

\* Close(), from after l.mu.Lock() to the deferred l.mu.Unlock().
CloseLocked ==
    /\ \E fault \in CallFaults :
         \E st \in {close([Logger EXCEPT !.fault = fault])} :
           /\ Ran(st, fault)
           /\ last' = [Did("Close") EXCEPT !.err = st.err]
    /\ UNCHANGED <<cfg, now, calls, worker>>

\* l.mu.Lock() returns when the mutex is free.
CanLock_noWait(m) == TRUE

CanLock(m) == m = 0

\* Write(p) as one step: the mutex is free before it and after it.
Write(writeLen) == CanLock(mu) /\ WriteLocked(writeLen) /\ UNCHANGED <<mu, pc>>

\* Rotate() as one step.
Rotate == CanLock(mu) /\ RotateLocked /\ UNCHANGED <<mu, pc>>

\* Close() as one step.
Close == CanLock(mu) /\ CloseLocked /\ UNCHANGED <<mu, pc>>

\* The goroutines that call the Logger's methods.
Callers == 1..MaxCallers

\* Caller c calls a method and gets past its l.mu.Lock().
Lock(c) ==
    /\ pc[c] = "out"
    /\ CanLock(mu)
    /\ mu' = c
    /\ pc' = [pc EXCEPT ![c] = "in"]
    /\ UNCHANGED <<cfg, dir, file, size, millCh, started, goroutines, worker, now, calls,
                   retired, last, faults>>

\* Caller c, past Lock, runs the body of its method and the deferred
\* l.mu.Unlock().
Unlock(c) ==
    /\ pc[c] = "in"
    /\ \/ \E writeLen \in 1..MaxLen : WriteLocked(writeLen)
       \/ RotateLocked
       \/ CloseLocked
    /\ mu' = 0
    /\ pc' = [pc EXCEPT ![c] = "out"]

\* The failures the environment can cause in the compressions of a pass.
CompressFaults(compress) ==
    {[at |-> 0, step |-> "none"]} \cup
    (IF faults > 0 THEN [at : 1..Len(compress), step : CompressSteps] ELSE {})

\* The failures the environment can cause in the removals of a pass.
RemoveFaults(remove) ==
    {rf \in SUBSET (1..Len(remove)) : Cardinality(rf) <= faults}

\* The number of failures in a pass.
PassFaults(rf, cf) == Cardinality(rf) + (IF cf.at = 0 THEN 0 ELSE 1)

\* millRun's loop head: the goroutine receives a request from millCh and
\* enters millRunOnce.
MillRun ==
    /\ started
    /\ worker = "idle"
    /\ millCh = 1
    /\ millCh' = 0
    /\ worker' = "busy"
    /\ last' = Did("start")
    /\ UNCHANGED <<cfg, dir, file, size, started, goroutines, now, calls, retired,
                   faults, mu, pc>>

\* millRun's loop body: the pass millRunOnce, from its directory listing to
\* its last compression; it runs without the Logger's mutex.
MillRunOnce ==
    /\ worker = "busy"
    /\ worker' = "idle"
    /\ \E files \in oldLogFiles(dir) :
         \E rf \in RemoveFaults(millPlan(files, now).remove),
            cf \in CompressFaults(millPlan(files, now).compress) :
           /\ PassFaults(rf, cf) <= faults
           /\ dir' = millRunOnce(dir, files, now, rf, cf)
           /\ faults' = faults - PassFaults(rf, cf)
           /\ last' = [Did("mill") EXCEPT
                         !.err = millErr(files, now, rf, cf).op,
                         !.failed = IF cf.at = 0 THEN <<>>
                                    ELSE millPlan(files, now).compress[cf.at].name,
                         !.step = cf.step,
                         !.gone = DOMAIN dir \ DOMAIN dir']
    /\ UNCHANGED <<cfg, file, size, millCh, started, goroutines, now, calls, retired,
                   mu, pc>>

\* Time passes (one day).
Tick ==
    /\ now < Now0 + MaxTicks
    /\ now' = now + 1
    /\ last' = Did("tick")
    /\ UNCHANGED <<cfg, dir, file, size, millCh, started, goroutines, worker, calls, retired,
                   faults, mu, pc>>

Next ==
    \/ \E writeLen \in 1..MaxLen : Write(writeLen)
    \/ Rotate
    \/ Close
    \/ MillRun
    \/ MillRunOnce
    \/ Tick

\* The steps when the callers are told apart: a method is two steps, its
\* Lock and the rest.
NextM ==
    \/ \E c \in Callers : Lock(c)
    \/ \E c \in Callers : Unlock(c)
    \/ MillRun
    \/ MillRunOnce
    \/ Tick

\* What an earlier run of the program can have left in the directory: the
\* log file ("log"), backup 1 (rotated on day 1) in plain ("b1") and in
\* compressed form ("b1gz"), backup 2 (rotated on day 2) in compressed form
\* ("b2gz"); a partial compressed form of backup 1 that a compression cut
\* short left behind ("b1part"); a directory bearing the name of backup 2 ("dir2"); a file of
\* another program whose name begins like the log's and is no backup name
\* ("near": foobar.log.old.1, or foobar-old-<time>.log in timestamp mode).
OldBackup(i) ==
    IF cfg.timeMode
    THEN prefixAndExt.prefix \o <<Format(WallClock(i, cfg.LocalTime))>>
           \o prefixAndExt.ext
    ELSE Filename \o <<Num(i)>>

Leftover(tag) ==
    CASE tag = "log" ->
            [name |-> Filename,
             f |-> [data |-> <<0>>, gz |-> FALSE, mtime |-> 0, isDir |-> FALSE,
                   mode |-> leftoverMode]]
      [] tag = "b1" ->
            [name |-> OldBackup(1),
             f |-> [data |-> <<0, 0>>, gz |-> FALSE, mtime |-> 1, isDir |-> FALSE,
                   mode |-> leftoverMode]]
      [] tag = "b1gz" ->
            [name |-> OldBackup(1) \o <<compressSuffix>>,
             f |-> [data |-> <<0, 0>>, gz |-> TRUE, mtime |-> 1, isDir |-> FALSE,
                   mode |-> leftoverMode]]
      [] tag = "b2gz" ->
            [name |-> OldBackup(2) \o <<compressSuffix>>,
             f |-> [data |-> <<0>>, gz |-> TRUE, mtime |-> 2, isDir |-> FALSE,
                   mode |-> leftoverMode]]
      [] tag = "b1part" ->
            [name |-> OldBackup(1) \o <<compressSuffix>>,
             f |-> [data |-> <<0>>, gz |-> TRUE, mtime |-> 1, isDir |-> FALSE,
                   mode |-> leftoverMode]]
      [] tag = "dir2" ->
            [name |-> OldBackup(2),
             f |-> [data |-> <<>>, gz |-> FALSE, mtime |-> 2, isDir |-> TRUE,
                   mode |-> leftoverMode]]
      [] tag = "near" ->
            [name |-> IF cfg.timeMode THEN <<Base, Dash, OldDash, Format(1), ExtLog>>
                      ELSE Filename \o <<ExtOld, Num(1)>>,
             f |-> [data |-> <<0>>, gz |-> FALSE, mtime |-> 1, isDir |-> FALSE,
                   mode |-> leftoverMode]]

\* The directory holding the leftovers named by tags.
DirOf(tags) ==
    [n \in {Leftover(t).name : t \in tags} |->
        Leftover(CHOOSE t \in tags : Leftover(t).name = n).f]

InitWith(configs, leftovers, budget) ==
    /\ cfg \in configs
    /\ faults = budget
    /\ \E tags \in leftovers : dir = DirOf(tags)
    /\ file = "nil"
    /\ size = 0
    /\ millCh = 0
    /\ worker = "idle"
    /\ started = FALSE
    /\ goroutines = 0
    /\ now = Now0
    /\ calls = 0
    /\ retired = <<>>
    /\ mu = 0
    /\ pc = [c \in Callers |-> "out"]
    /\ last = [op |-> "init", len |-> 0, n |-> 0, err |-> "nil", rotations |-> 0,
               wasOpen |-> FALSE, failed |-> <<>>, step |-> "none", gone |-> {},
               fellBack |-> FALSE]

\* The writer's specification: every size limit, both naming modes, no
\* retention limits.
Configs ==
    [Filename : {FoobarLog}, timeMode : BOOLEAN, MaxBytes : {-1, 0, 3},
     MaxBackups : {0}, MaxAge : {0}, Compress : {FALSE},
     LocalTime : {FALSE}, zone : {0}, day : {1}]

Leftovers == {{}, {"log"}, {"log", "b1"}, {"log", "b2gz"}}

Init == InitWith(Configs, Leftovers, 0)

\* The retention specification: one size limit, both naming modes, every
\* combination of count cap, age cap and compression; leftovers that
\* include compressed backups and a backup in both forms.
RetentionConfigs ==
    [Filename : {FoobarLog}, timeMode : BOOLEAN, MaxBytes : {3},
     MaxBackups : {0, 1, 2}, MaxAge : {0, 1}, Compress : BOOLEAN,
     LocalTime : {FALSE}, zone : {0}, day : {1}]

RetentionLeftovers ==
    {{}, {"log", "b1", "b1gz"}, {"log", "b1gz", "b2gz"}, {"log", "b1", "b2gz"}}

InitR == InitWith(RetentionConfigs, RetentionLeftovers, 0)

\* The specification with failures and foreign entries: the environment
\* makes up to MaxFaults system calls fail; the directory can hold a
\* directory and a file of another program next to the backups.
FaultConfigs ==
    [Filename : {FoobarLog}, timeMode : BOOLEAN, MaxBytes : {3},
     MaxBackups : {0}, MaxAge : {0}, Compress : BOOLEAN,
     LocalTime : {FALSE}, zone : {0}, day : {1}]

FaultLeftovers == {{}, {"log", "b1", "b1gz"}, {"log", "b1", "dir2", "near"}}

InitF == InitWith(FaultConfigs, FaultLeftovers, MaxFaults)

\* The worker's specification: compression on, no limits, leftovers with a
\* backup a previous run left uncompressed, alone or next to a stale partial
\* .gz of it. The Go scheduler runs a runnable goroutine, and a pass is a finite
\* loop over a finite listing: millRun's two steps are weakly fair.
WorkerConfigs ==
    [Filename : {FoobarLog}, timeMode : BOOLEAN, MaxBytes : {3},
     MaxBackups : {0}, MaxAge : {0}, Compress : {TRUE},
     LocalTime : {FALSE}, zone : {0}, day : {1}]

WorkerLeftovers == {{"log", "b1"}, {"log", "b1", "b1part"}}

InitL == InitWith(WorkerConfigs, WorkerLeftovers, 0)

Spec == Init /\ [][Next]_vars

\* WF_vars(MillRunOnce) with its ENABLED written out: MillRunOnce is enabled
\* exactly when worker = "busy".
PassEnds == []<>(worker # "busy") \/ []<><<MillRunOnce>>_vars

SpecL == InitL /\ [][Next]_vars /\ WF_vars(MillRun) /\ PassEnds

SpecF == InitF /\ [][Next]_vars

\* The naming specification: file names without an extension, with a
\* numeric extension and with the extension of the tests, both naming
\* modes, compression on and off.
NameConfigs ==
    [Filename : {<<Base>>, <<Base, Num(1)>>, FoobarLog}, timeMode : BOOLEAN,
     MaxBytes : {3}, MaxBackups : {0}, MaxAge : {0}, Compress : BOOLEAN,
     LocalTime : {FALSE}, zone : {0}, day : {1}]

NameLeftovers == {{}, {"log"}, {"log", "b1"}}

InitN == InitWith(NameConfigs, NameLeftovers, 0)

SpecN == InitN /\ [][Next]_vars

\* The specification of time zones: timestamp mode, an age cap of one day,
\* a clock that counts half days, names in UTC and in a local time that is
\* 12 hours behind UTC, UTC itself, or 12 hours ahead.
ZoneConfigs ==
    [Filename : {FoobarLog}, timeMode : {TRUE}, MaxBytes : {3},
     MaxBackups : {0}, MaxAge : {1}, Compress : {FALSE},
     LocalTime : BOOLEAN, zone : {-1, 0, 1}, day : {2}]

ZoneLeftovers == {{"log", "b1"}, {"log", "b1", "b2gz"}}

InitZ == InitWith(ZoneConfigs, ZoneLeftovers, 0)

SpecZ == InitZ /\ [][Next]_vars

\* The specification of failing passes: a count cap of 2, compression
\* on, leftovers that make a pass remove and compress several files, and an
\* environment that makes system calls fail.
PassConfigs ==
    [Filename : {FoobarLog}, timeMode : BOOLEAN, MaxBytes : {3},
     MaxBackups : {2}, MaxAge : {0}, Compress : {TRUE},
     LocalTime : {FALSE}, zone : {0}, day : {1}]

PassLeftovers == {{"log", "b1", "b2gz"}}

InitP == InitWith(PassConfigs, PassLeftovers, MaxFaults)

SpecP == InitP /\ [][Next]_vars

\* Callers told apart: two naming modes, a size limit of 3, compression on.
SpecM == InitL /\ [][NextM]_vars

SpecR == InitR /\ [][Next]_vars

----------------------------------------------------------------------------
(* Vocabulary of the claims. *)

\* This step is a call of Write / of Rotate (last' describes it).
WriteStep == last'.op = "Write" /\ calls' = calls + 1
RotateStep == last'.op = "Rotate" /\ calls' = calls + 1

\* The names of d other than the log file's.
Others(d) == DOMAIN d \ {Filename}

\* Every file of d other than the log file is in e, unchanged.
OthersKept(d, e) == \A n \in Others(d) : n \in DOMAIN e /\ e[n] = d[n]

\* The step moved the log file's bytes to exactly one name that held no file
\* before, and touched no other backup.
OneNewBackup ==
    /\ OthersKept(dir, dir')
    /\ \E n \in Others(dir') \ Others(dir) :
          /\ Others(dir') = Others(dir) \cup {n}
          /\ dir'[n].data = dir[Filename].data
          /\ ~dir'[n].gz

\* The step made no backup and changed none.
NoNewBackup == OthersKept(dir, dir') /\ Others(dir') = Others(dir)

----------------------------------------------------------------------------
(* C1..C6: Write. *)

\* C1: a Write longer than the effective maximum returns the length error
\* and 0 bytes, rotates nothing, creates no file, and leaves the handle, the
\* tracked size and the directory as they were, with or without a handle.
C1_OversizedWriteRejected ==
    [][(WriteStep /\ last'.len > max(size, last'.len))
        => /\ last'.err = "toolong"
           /\ last'.n = 0
           /\ last'.rotations = 0
           /\ dir' = dir
           /\ file' = file
           /\ size' = size
           /\ retired' = retired]_vars

\* C1's case: an oversized Write was rejected while a handle was open on a
\* non-empty file, next to a backup.
C1_Witness ==
    /\ last.op = "Write" /\ last.err = "toolong"
    /\ cfg.MaxBytes > 0 /\ last.len > cfg.MaxBytes
    /\ file = "open" /\ size > 0 /\ Others(dir) # {}

\* C2: with MaxBytes > 0, whenever a handle is open the tracked size and the
\* size of the file at Filename are at most MaxBytes.
C2_OpenFileWithinMax ==
    (cfg.MaxBytes > 0 /\ file = "open")
        => /\ size <= cfg.MaxBytes
           /\ Exists(dir, Filename)
           /\ FileSize(dir, Filename) <= cfg.MaxBytes

\* C2's case: the open file is full, after a Write that had to rotate.
C2_Witness ==
    /\ cfg.MaxBytes > 0 /\ file = "open" /\ size = cfg.MaxBytes
    /\ last.op = "Write" /\ last.rotations = 1 /\ last.wasOpen

\* The precondition of C3: a handle is open, MaxBytes > 0, and this step is
\* a Write of at most MaxBytes bytes that do not fit the open file.
C3_Overflowing ==
    /\ WriteStep
    /\ file = "open" /\ cfg.MaxBytes > 0
    /\ last'.len <= cfg.MaxBytes
    /\ size + last'.len > cfg.MaxBytes

\* What C3 promises of such a Write.
C3_Rotated ==
    /\ last'.err = "nil"
    /\ dir'[Filename].data = Bytes(calls', last'.len)
    /\ OneNewBackup

\* C3 as stated: in both naming modes an overflowing Write leaves exactly
\* its own bytes in the log file and exactly one new backup holding the
\* previous content.
C3_AsStated == [][C3_Overflowing => C3_Rotated]_vars

\* C3 amended: the same, in timestamp mode only when no file already bears
\* the backup name formatted from the current clock reading.
C3_OverflowRotates ==
    [][(C3_Overflowing /\ (cfg.timeMode => ~Exists(dir, backupName(dir, now))))
        => C3_Rotated]_vars

\* C3's case: an overflowing Write on an open handle rotated, in timestamp
\* mode, and the directory now holds the log file and two backups.
C3_Witness ==
    /\ cfg.timeMode /\ cfg.MaxBytes > 0
    /\ last.op = "Write" /\ last.err = "nil" /\ last.wasOpen /\ last.rotations = 1
    /\ Cardinality(Others(dir)) >= 2

\* C4: a Write whose length is exactly MaxBytes minus the size of the file at
\* Filename never rotates and leaves that file at exactly MaxBytes bytes,
\* with a handle open or with none and the file existing.
C4_ExactFitNeverRotates ==
    [][(/\ WriteStep
        /\ cfg.MaxBytes > 0
        /\ Exists(dir, Filename)
        /\ last'.len = cfg.MaxBytes - FileSize(dir, Filename))
        => /\ last'.rotations = 0
           /\ FileSize(dir', Filename) = cfg.MaxBytes
           /\ NoNewBackup]_vars

\* The precondition of C5: no handle is open, a file exists at Filename, and
\* this step is a Write that is not rejected as too long.
C5_Resuming ==
    /\ WriteStep
    /\ file = "nil" /\ Exists(dir, Filename)
    /\ last'.len <= max(size, last'.len)

C6_UnlimitedNeverRotates ==
    [][(WriteStep /\ cfg.MaxBytes = -1)
        => /\ last'.err = "nil"
           /\ last'.rotations = 0
           /\ NoNewBackup]_vars

----------------------------------------------------------------------------
(* C7..C10: backups and the retention pass. *)

gz == <<compressSuffix>>

\* The names the documentation gives a backup of this log, uncompressed:
\* <name>.<N> in ordinal mode, <name-without-ext>-<timestamp><ext> in
\* timestamp mode.
IsPlainBackupName(n) ==
    IF cfg.timeMode
    THEN Len(n) = 4 /\ n[1] = Base /\ n[2] = Dash /\ n[3][1] = "time" /\ n[4] = ExtLog
    ELSE Len(n) = 3 /\ n[1] = Base /\ n[2] = ExtLog /\ n[3][1] = ".#"

\* A backup name, in uncompressed or compressed form.
IsBackupName(n) == IsPlainBackupName(TrimSuffix(n, gz))

\* The logical backups of d: a backup's two forms count once.
LogicalBackups(d) ==
    {TrimSuffix(n, gz) : n \in {m \in DOMAIN d : IsBackupName(m) /\ ~d[m].isDir}}

\* The forms of logical backup b present in d.
Forms(d, b) == {b, b \o gz} \cap DOMAIN d

\* The ordinal of an ordinal-mode backup name.
OrdinalOf(n) == n[3][2]

\* The highest ordinal among the backups of d, in either form (0 if none).
HighestOrdinal(d) ==
    LET os == {OrdinalOf(b) : b \in LogicalBackups(d)}
    IN  IF os = {} THEN 0 ELSE CHOOSE o \in os : \A q \in os : q <= o

\* The ordering timestamp of logical backup b of d: parsed from the name in
\* timestamp mode, the file's time in ordinal mode.
OrderingTime(d, b) ==
    IF cfg.timeMode THEN b[3][2]
    ELSE IF b \in DOMAIN d THEN d[b].mtime ELSE d[b \o gz].mtime

\* C7: with MaxBackups = 0 and MaxAge = 0 the content retired by every
\* rotation is in the directory in a backup of its own: under the name the
\* rotation gave it or that name with ".gz" (compressed exactly when named
\* so), and no two rotations gave their content the same name.
C7_NoBackupLost ==
    (cfg.MaxBackups = 0 /\ cfg.MaxAge = 0)
        => \A i \in 1..Len(retired) :
              /\ \E n \in Forms(dir, retired[i].name) :
                    /\ dir[n].data = retired[i].data
                    /\ dir[n].gz = HasSuffix(n, gz)
              /\ \A j \in 1..Len(retired) :
                    retired[j].name = retired[i].name => j = i

\* C8: in ordinal mode a rotation that moves the log file aside names the
\* backup with one more than the highest ordinal present in either form,
\* and never with the ordinal of a backup that exists in either form.
C8_NextOrdinal ==
    [][(~cfg.timeMode /\ Len(retired') = Len(retired) + 1)
        => /\ retired'[Len(retired')].name =
                 Filename \o <<Num(HighestOrdinal(dir) + 1)>>
           /\ Forms(dir, retired'[Len(retired')].name) = {}]_vars

\* C9: with MaxBackups > 0, when a retention pass has completed the
\* directory holds at most MaxBackups logical backups.
C9_CountCap ==
    (last.op = "mill" /\ cfg.MaxBackups > 0)
        => Cardinality(LogicalBackups(dir)) <= cfg.MaxBackups

\* C10: with MaxBackups = k > 0 and MaxAge = 0 a retention pass keeps the k
\* newest logical backups (all of them if there are fewer): no removed
\* backup is newer than a kept one, every form of a kept backup is still
\* there (the plain form possibly compressed), and no form of another is.
C10_KeepsNewest ==
    [][(last'.op = "mill" /\ worker = "busy" /\ cfg.MaxBackups > 0 /\ cfg.MaxAge = 0)
        => LET L == LogicalBackups(dir)
               R == LogicalBackups(dir')
               k == cfg.MaxBackups
           IN  /\ R \subseteq L
               /\ Cardinality(R) = IF Cardinality(L) < k THEN Cardinality(L) ELSE k
               /\ \A a \in R : \A b \in L \ R :
                     OrderingTime(dir, a) >= OrderingTime(dir, b)
               /\ \A a \in R : \A n \in Forms(dir, a) :
                     \/ n \in DOMAIN dir'
                     \/ cfg.Compress /\ n = a /\ (a \o gz) \in DOMAIN dir']_vars

----------------------------------------------------------------------------
(* C11..C13: the retention pass, continued. *)

\* The ordering timestamp of the backup file named n in d.
FileTime(d, n) == IF cfg.timeMode THEN n[3][2] ELSE d[n].mtime

\* The last step was a retention pass that returned no error.
PassDone == last.op = "mill" /\ last.err = "nil"

\* C11: with MaxAge > 0, when a retention pass has completed without error
\* no backup file of this log, compressed or not, has an ordering timestamp
\* earlier than the current time minus MaxAge days.
C11_AgeCap ==
    (PassDone /\ cfg.MaxAge > 0)
        => \A b \in LogicalBackups(dir) : \A n \in Forms(dir, b) :
              FileTime(dir, n) >= now - cfg.MaxAge

\* C12: a retention pass leaves every directory, and every file whose name
\* is not a backup name of this log (plain or with ".gz"), exactly as it
\* was, and creates no entry under such a name.
C12_ForeignUntouched ==
    [][(last'.op = "mill" /\ worker = "busy")
        => /\ \A n \in DOMAIN dir :
                (dir[n].isDir \/ ~IsBackupName(n))
                    => n \in DOMAIN dir' /\ dir'[n] = dir[n]
           /\ \A n \in DOMAIN dir' \ DOMAIN dir : IsBackupName(n)]_vars

\* C13: with Compress, once a retention pass has run without error every
\* surviving backup exists under ".gz" only, holding (gzip-encoded) the
\* content the backup had; a backup that existed only in compressed form is
\* left exactly as it was; and with no count or age cap every backup
\* survives.
C13_CompressedOnly ==
    [][(last'.op = "mill" /\ last'.err = "nil" /\ worker = "busy" /\ cfg.Compress)
        => /\ \A b \in LogicalBackups(dir') :
                /\ Forms(dir', b) = {b \o gz}
                /\ dir'[b \o gz].gz
                /\ dir'[b \o gz].data =
                      IF b \in DOMAIN dir THEN dir[b].data ELSE dir[b \o gz].data
                /\ b \notin DOMAIN dir => dir'[b \o gz] = dir[b \o gz]
           /\ (cfg.MaxBackups = 0 /\ cfg.MaxAge = 0)
                => LogicalBackups(dir') = LogicalBackups(dir)]_vars

----------------------------------------------------------------------------
(* C14..C20: Rotate, the background worker, Close, failures. *)

\* The precondition of C14: this step is a Rotate that returns no error, on
\* a Logger whose log file exists.
C14_Rotating ==
    /\ RotateStep
    /\ last'.err = "nil"
    /\ Exists(dir, Filename)

\* What C14 promises of such a Rotate.
C14_Rotated ==
    /\ OneNewBackup
    /\ Exists(dir', Filename) /\ dir'[Filename].data = <<>>
    /\ file' = "open" /\ size' = 0
    /\ started' /\ millCh' = 1

\* C14 as stated: in both naming modes a successful Rotate of an existing
\* log file makes exactly one new backup holding the previous content,
\* leaves an empty log file with an open handle and tracked size 0, and
\* requests a retention pass.
C14_AsStated == [][C14_Rotating => C14_Rotated]_vars

\* C14 amended: the same, in timestamp mode only when no file already bears
\* the backup name formatted from the current clock reading.
C14_RotateMakesBackup ==
    [][(C14_Rotating /\ (cfg.timeMode => ~Exists(dir, backupName(dir, now))))
        => C14_Rotated]_vars

\* C14's case: a Rotate has moved an empty log file aside: the newest
\* retired content is empty and sits in a backup, next to an empty log file
\* with an open handle.
C14_Witness ==
    /\ last.op = "Rotate" /\ last.err = "nil" /\ last.rotations = 1
    /\ Len(retired) > 0
    /\ retired[Len(retired)].data = <<>>
    /\ Exists(dir, retired[Len(retired)].name)
    /\ dir[retired[Len(retired)].name].data = <<>>
    /\ file = "open" /\ size = 0 /\ millCh = 1

\* The state after a call that rotated without error for the k-th time.
C15_Rotated(k) ==
    /\ last.op \in {"Write", "Rotate"}
    /\ last.rotations >= 1 /\ last.err = "nil"
    /\ Len(retired) = k

\* The state after the worker received a request, about to list a directory
\* that holds the backup of the k-th rotation, in one form or the other.
C15_PassStarts(k) ==
    /\ last.op = "start"
    /\ Len(retired) >= k
    /\ Forms(dir, retired[k].name) # {}

\* C15: with a fairly scheduled worker, every successful rotation is followed
\* by the start of a retention pass, on a directory that holds the backup
\* the rotation made, also when the rotation's own send was dropped.
C15_PassFollowsRotation ==
    \A k \in 1..MaxCalls : C15_Rotated(k) ~> C15_PassStarts(k)

\* C15's case: a pass starts after two rotations whose backups are both still
\* uncompressed: no pass ran since the first, the worker was idle, so the
\* second rotation found the first one's request in the channel and its own
\* was dropped.
C15_Witness ==
    /\ last.op = "start" /\ cfg.Compress
    /\ Len(retired) >= 2
    /\ retired[1].name # retired[2].name
    /\ retired[1].name \in DOMAIN dir /\ retired[2].name \in DOMAIN dir

\* C16: in every state, whatever the worker is doing (receiving, or inside a
\* pass that never returns) and whether or not a request is pending, Close
\* can run to its return, and so can Rotate and every Write while calls
\* remain: no call waits for the worker, which holds nothing a call needs.
C16_CallsNeverWait ==
    /\ ENABLED Close
    /\ calls < MaxCalls
         => (ENABLED Rotate /\ \A writeLen \in 1..MaxLen : ENABLED Write(writeLen))

\* C16's case: a Write that neither opened nor rotated (so sent no request
\* itself) returned its bytes while the worker was inside a pass and a
\* request was pending.
C16_Witness ==
    /\ worker = "busy" /\ millCh = 1
    /\ last.op = "Write" /\ last.wasOpen /\ last.rotations = 0 /\ last.n > 0

\* This step is a Write on a Logger that holds no handle.
C17_NoHandleWrite == WriteStep /\ file = "nil"

\* The state after the first call, when that call is a Write.
C17_Resumed == last.op = "Write" /\ ~last.wasOpen /\ calls = 1

\* The call left a request for the worker.
C17_Requests == started' /\ millCh' = 1

\* The backup the previous run left uncompressed now exists in compressed
\* form only, with its content.
C17_LeftoverCompressed ==
    /\ ~Exists(dir, OldBackup(1))
    /\ Exists(dir, OldBackup(1) \o gz)
    /\ dir[OldBackup(1) \o gz].gz
    /\ dir[OldBackup(1) \o gz].data = Leftover("b1").f.data

\* C17 as stated: every Write on a Logger with no handle requests a pass,
\* rotation or not, and the first one is followed by the compression of the
\* backup the previous run left uncompressed.
C17_AsStated ==
    /\ [][C17_NoHandleWrite => C17_Requests]_vars
    /\ C17_Resumed ~> C17_LeftoverCompressed

\* C17 amended: the same for every such Write that is not rejected as
\* longer than the maximum.
C17_ResumeRequestsPass ==
    /\ [][(C17_NoHandleWrite /\ ~tooLong(size, last'.len)) => C17_Requests]_vars
    /\ (C17_Resumed /\ last.err # "toolong") ~> C17_LeftoverCompressed

\* C17's case: no rotation has happened, a call has been made, and a pass
\* has compressed the backup of the previous run (the compressed file is
\* of this run) and removed its uncompressed form.
C17_Witness ==
    /\ Len(retired) = 0 /\ calls >= 1
    /\ last.op = "mill"
    /\ C17_LeftoverCompressed
    /\ dir[OldBackup(1) \o gz].mtime >= Now0

\* C18: a Close on a Logger that holds no handle (never opened, or released
\* by an earlier Close, failed or not) returns no error and changes nothing.
C18_CloseIdempotent ==
    [][(last'.op = "Close" /\ file = "nil")
        => /\ last'.err = "nil"
           /\ UNCHANGED <<cfg, dir, file, size, millCh, started, goroutines, worker, now,
                          calls, retired, faults>>]_vars

\* C18's case: a Close on no handle returned no error after an earlier Close
\* had failed: without compression, the one call made was a Write that put
\* all its bytes into an existing log file without rotating, so the failure
\* the environment has caused since can only be that of a Close.
C18_Witness ==
    /\ last.op = "Close" /\ last.err = "nil" /\ ~last.wasOpen
    /\ file = "nil"
    /\ ~cfg.Compress /\ faults < MaxFaults
    /\ calls = 1 /\ Len(retired) = 0
    /\ Exists(dir, Filename)
    /\ dir[Filename].data = Leftover("log").f.data \o Bytes(1, 1)

\* l records a Write or Rotate that failed to create the directory, to
\* rename the log file, or to open the new file.
C19_Failed(l) ==
    /\ l.op \in {"Write", "Rotate"}
    /\ l.err \in {"mkdir", "rename", "open"}

\* No byte of call number c is in any file of d.
C19_NothingWritten(d, c) ==
    \A n \in DOMAIN d : \A i \in 1..Len(d[n].data) : d[n].data[i] # c

\* The content the log file had before this step is still at Filename, or
\* in the backup this step renamed it to.
C19_ContentKept ==
    Exists(dir, Filename)
        => \/ Exists(dir', Filename) /\ dir'[Filename].data = dir[Filename].data
           \/ /\ Len(retired') = Len(retired) + 1
              /\ Exists(dir', retired'[Len(retired')].name)
              /\ dir'[retired'[Len(retired')].name].data = dir[Filename].data

\* The failure still occurs: this Write has to rotate and a directory sits
\* at the name the log file would be renamed to.
C19_StillObstructed(writeLen) ==
    /\ Exists(dir, Filename)
    /\ resumeWouldOverflow(FileSize(dir, Filename), size, writeLen)
    /\ Exists(dir, backupName(dir, now))
    /\ dir[backupName(dir, now)].isDir

\* C19: a Write or Rotate that fails with a directory-create, rename or open
\* failure returns 0 bytes, puts none of its bytes on disk, leaves the
\* Logger without a handle and the log file's previous content on disk; and
\* a Write that follows such a failure, of an acceptable length and with the
\* environment causing no failure, returns all its bytes, which are then at
\* the end of the log file, with a handle open.
C19_FailureThenRetry ==
    [][/\ (C19_Failed(last') /\ calls' = calls + 1)
            => /\ last'.n = 0
               /\ C19_NothingWritten(dir', calls')
               /\ file' = "nil"
               /\ C19_ContentKept
       /\ (/\ WriteStep /\ C19_Failed(last)
           /\ faults' = faults
           /\ ~tooLong(size, last'.len)
           /\ ~C19_StillObstructed(last'.len))
            => /\ last'.err = "nil" /\ last'.n = last'.len
               /\ file' = "open"
               /\ Exists(dir', Filename)
               /\ FileSize(dir', Filename) >= last'.len
               /\ SubSeq(dir'[Filename].data,
                         FileSize(dir', Filename) - last'.len + 1,
                         FileSize(dir', Filename)) = Bytes(calls', last'.len)]_vars

\* C19's case: a Write on an open handle had to rotate and the rename
\* failed; the bytes written before are still in the log file, and a call
\* remains for the retry.
C19_Witness ==
    /\ last.op = "Write" /\ last.err = "rename" /\ last.wasOpen
    /\ file = "nil"
    /\ Exists(dir, Filename) /\ FileSize(dir, Filename) > 0
    /\ calls < MaxCalls

\* This step is a pass in which the compression of backup last'.failed
\* failed (at step last'.step).
C20_CompressionFailed == last'.op = "mill" /\ last'.err = "compress"

\* C20 as stated: after a pass in which the compression of a backup failed,
\* at whatever step, no file exists at that backup's compressed name and the
\* uncompressed backup is there as it was.
C20_NoPartialArtifact ==
    [][C20_CompressionFailed
        => /\ ~Exists(dir', last'.failed \o gz)
           /\ Exists(dir', last'.failed)
           /\ dir'[last'.failed] = dir[last'.failed]]_vars

\* C20 amended: when the failure comes after the compressed file was opened
\* (copying, closing, removing the source), no file is left at the
\* compressed name; when it comes while opening or stat-ing the source, the
\* directory is as it was, a stale file at the compressed name included; in
\* both cases the uncompressed backup is there as it was.
C20_FailedCompressionUndone ==
    [][C20_CompressionFailed
        => /\ last'.step \in {"copy", "removesrc"}
                => /\ ~Exists(dir', last'.failed \o gz)
                   /\ Exists(dir', last'.failed)
                   /\ dir'[last'.failed] = dir[last'.failed]
           /\ last'.step \in {"opensrc", "stat"}
                => /\ Exists(dir', last'.failed)
                   /\ dir'[last'.failed] = dir[last'.failed]
                   /\ \A n \in {last'.failed \o gz} \cap DOMAIN dir :
                         n \in DOMAIN dir' /\ dir'[n] = dir[n]
                   /\ last'.failed \o gz \notin DOMAIN dir
                         => last'.failed \o gz \notin DOMAIN dir']_vars

\* C20's case: the compression of the backup of the previous run failed
\* while copying, in a directory that held a compressed file of that name
\* from before: the uncompressed backup is there and the compressed name is
\* free.
C20_Witness ==
    /\ last.op = "mill" /\ last.err = "compress" /\ last.step = "copy"
    /\ last.failed = OldBackup(1)
    /\ Leftover("near").name \notin DOMAIN dir
    /\ Leftover("near").name \o gz \notin DOMAIN dir
    /\ Exists(dir, OldBackup(1))
    /\ ~Exists(dir, OldBackup(1) \o gz)

----------------------------------------------------------------------------
(* C21..C30: races, the worker, the lock, sizes, names, failures, time. *)

\* C21: in ordinal mode no Write or Rotate returns the error of a directory
\* entry that a concurrent pass removed or compressed between the call's
\* listing and its f.Info().
C21_NoRaceError ==
    [][(~cfg.timeMode /\ calls' = calls + 1) => last'.err # "info"]_vars

\* C22: millCh never holds more than one request; a call leaves the channel
\* as it was or with one request in it, whatever the worker is doing; the
\* worker enters a pass only by taking the one request out of the channel
\* and nothing else takes a request out: every pass has a request of its
\* own, and the requests made while one is pending add no pass.
C22_OneRequestPending ==
    /\ [](millCh \in {0, 1})
    /\ [][/\ calls' = calls + 1 => millCh' \in {millCh, 1}
          /\ (worker = "idle" /\ worker' = "busy") => (millCh = 1 /\ millCh' = 0)
          /\ millCh' < millCh => (worker = "idle" /\ worker' = "busy")
          /\ millCh' > millCh => calls' = calls + 1]_vars

\* C22's case: a Rotate whose request was dropped: both backups of the last
\* two rotations are still uncompressed, so no pass ran and the worker stayed
\* idle since the first of them, whose request was still in the channel when
\* the second rotation sent its own; one request is pending.
C22_Witness ==
    /\ last.op = "Rotate" /\ last.err = "nil"
    /\ worker = "idle" /\ millCh = 1
    /\ cfg.Compress
    /\ Len(retired) >= 2
    /\ retired[Len(retired) - 1].name # retired[Len(retired)].name
    /\ retired[Len(retired) - 1].name \in DOMAIN dir
    /\ retired[Len(retired)].name \in DOMAIN dir

\* C23: a Logger never has more than one millRun goroutine: none before
\* the first call, one from the first Write or Rotate that gets as far as
\* mill, and no further one whatever calls follow; a pass runs only in that
\* goroutine, so never two at a time.
C23_OneWorker ==
    /\ [](/\ goroutines \in {0, 1}
          /\ goroutines = 1 <=> started
          /\ calls = 0 => goroutines = 0
          /\ worker = "busy" => goroutines = 1)
    /\ [][goroutines' # goroutines
            => /\ goroutines = 0 /\ goroutines' = 1
               /\ calls' = calls + 1
               /\ last'.op \in {"Write", "Rotate"}
               /\ last'.err # "toolong"]_vars

\* C23's case: after three calls, two of them rotations, and a pass, the
\* Logger has one goroutine, inside its next pass.
C23_Witness ==
    /\ goroutines = 1 /\ worker = "busy"
    /\ calls >= 3 /\ Len(retired) >= 2
    /\ Exists(dir, OldBackup(1) \o gz) /\ dir[OldBackup(1) \o gz].mtime >= Now0


\* Some caller other than c is inside a method.
C24_OtherInside(c) == \E d \in Callers \ {c} : pc[d] = "in"

\* C24: Write, Close and Rotate on one Logger exclude each other: at most
\* one caller is past Lock at any time, and it is the one holding l.mu; the
\* handle and the tracked size change only in a step of the caller holding
\* l.mu, never in a step of the retention worker.
C24_MutualExclusion ==
    /\ [](\A c \in Callers :
            /\ pc[c] = "in" <=> mu = c
            /\ pc[c] = "in" => ~C24_OtherInside(c))
    /\ [][(file' # file \/ size' # size)
            => /\ mu \in Callers
               /\ pc[mu] = "in"
               /\ pc'[mu] = "out"
               /\ worker' = worker
               /\ millCh' >= millCh]_vars

\* A caller is inside Write or Rotate with the handle open, another caller
\* is kept out, and the worker is in a pass.
C24_Witness ==
    /\ pc[1] = "in"
    /\ pc[2] = "out"
    /\ ~ENABLED Lock(2)
    /\ worker = "busy"
    /\ file = "open"
    /\ size > 0

\* C25: whenever a handle is open, the tracked size is the size of the file
\* at Filename; and a Write that leaves a handle open leaves the size at the
\* bytes it reports (n, a short write's included) on top of 0 if it opened
\* a fresh file or rotated, of the existing file's size if it resumed it, of
\* the size before if the handle was open.
C25_SizeTracksFile ==
    /\ [](file = "open" =>
            /\ Exists(dir, Filename)
            /\ size = FileSize(dir, Filename))
    /\ [][(calls' = calls + 1 /\ file' = "open") =>
            size' = last'.n +
                    (IF Len(retired') > Len(retired) \/ ~Exists(dir, Filename) THEN 0
                     ELSE IF file = "nil" THEN FileSize(dir, Filename)
                     ELSE size)]_vars

\* C27: whatever Filename is, the file at Filename is never among the
\* backups oldLogFiles lists, and a retention pass leaves it as it is.
C27_ActiveNeverBackup ==
    /\ [](\A f \in logFiles(dir) : f.name # Filename)
    /\ [][(last'.op = "mill" /\ worker = "busy" /\ Exists(dir, Filename))
            => (Exists(dir', Filename) /\ dir'[Filename] = dir[Filename])]_vars

\* Where the bytes of call c are in the file name of d.
C26_Places(d, name, c) == {i \in 1..Len(d[name].data) : d[name].data[i] = c}

\* C26: the bytes of a successful Write are stored in one piece in one file.
\* In every file the bytes of one call are next to each other, no two files
\* hold bytes of the same call, and a Write that returns no error has
\* written all its bytes, in order, at the end of the file its handle is on
\* (the file at Filename, unless that name was taken away under the handle).
C26_WritesInOnePiece ==
    /\ [](\A c \in 1..MaxCalls :
            /\ \A name \in DOMAIN dir :
                 \A i, j \in C26_Places(dir, name, c) :
                   \A k \in i..j : k \in C26_Places(dir, name, c)
            /\ \A name, other \in DOMAIN dir :
                 (C26_Places(dir, name, c) # {} /\ C26_Places(dir, other, c) # {})
                   => name = other)
    /\ [][(WriteStep /\ last'.err = "nil") =>
            /\ last'.n = last'.len
            /\ Exists(dir', Filename) =>
                 C26_Places(dir', Filename, calls') =
                   (FileSize(dir', Filename) - last'.len + 1)..FileSize(dir', Filename)
            /\ \A name \in DOMAIN dir' \ {Filename} :
                 C26_Places(dir', name, calls') = {}]_vars

\* A Write that had to rotate has all its bytes in the new file, and the
\* backup the rotation made holds the bytes of an earlier Write.
C26_Witness ==
    /\ last.op = "Write" /\ last.err = "nil" /\ last.rotations = 1
    /\ last.len >= 2
    /\ dir[Filename].data = Bytes(calls, last.len)
    /\ \E c \in 1..(calls - 1) :
         \E name \in DOMAIN dir \ {Filename} : C26_Places(dir, name, c) # {}

\* A Write found a file to resume and could not open it for appending.
C28_AppendOpenFailed == WriteStep /\ last'.fellBack

\* The backup the step has made.
C28_Moved == retired'[Len(retired')]

\* C28: when the file to resume cannot be opened for appending, Write does
\* not return that failure but goes on with openNew.  If openNew goes
\* through, the file that was at Filename is a backup now, with the bytes it
\* had, and the Write's bytes are alone in a new file at Filename; if openNew
\* cannot move the file away, its own error is returned and the file is as
\* it was.
C28_FallsBackToNew ==
    /\ [](last.err # "openappend")
    /\ [][C28_AppendOpenFailed =>
           /\ file = "nil" /\ Exists(dir, Filename)
           /\ last'.err \in {"nil", "rename"}
           /\ last'.err = "nil" =>
                /\ file' = "open"
                /\ last'.n = last'.len
                /\ size' = last'.len
                /\ dir'[Filename].data = Bytes(calls', last'.len)
                /\ Len(retired') = Len(retired) + 1
                /\ C28_Moved.name # Filename
                /\ C28_Moved.data = dir[Filename].data
                /\ Exists(dir', C28_Moved.name)
                /\ dir'[C28_Moved.name].data = dir[Filename].data
                /\ ~dir'[C28_Moved.name].gz
           /\ last'.err = "rename" =>
                /\ file' = "nil"
                /\ last'.n = 0
                /\ dir' = dir]_vars

\* The first Write found a file it could not open for appending: its bytes
\* are in a new file and the old bytes in a backup.
C28_Witness ==
    /\ last.op = "Write" /\ last.fellBack /\ last.err = "nil"
    /\ calls = 1
    /\ file = "open"
    /\ dir[Filename].data = Bytes(1, last.len)
    /\ Len(retired) = 1
    /\ dir[retired[1].name].data = <<0>>

\* The first error of a pass in the order millRunOnce makes its attempts:
\* the removals in the order of the remove list, then the compressions.
C29_FirstError(plan, rf, cf) ==
    IF rf # {}
    THEN [op |-> "remove",
          name |-> plan.remove[CHOOSE i \in rf : \A j \in rf : i <= j].name]
    ELSE IF cf.at # 0 THEN [op |-> "compress", name |-> plan.compress[cf.at].name]
    ELSE NoErr

\* What a pass with this plan has to leave when the removals rf and the
\* compression cf fail: every other file marked for removal is gone, every
\* other file marked for compression is replaced by its compressed form, and
\* the error returned is the first one met.
C29_Outcome(plan, after, err, rf, cf) ==
    /\ \A i \in 1..Len(plan.remove) :
         Exists(after, plan.remove[i].name) <=> i \in rf
    /\ \A i \in 1..Len(plan.compress) :
         i # cf.at =>
           \A src \in {plan.compress[i].name} :
             /\ ~Exists(after, src)
             /\ Exists(after, src \o gz)
             /\ after[src \o gz].gz
             /\ after[src \o gz].data = dir[src].data
    /\ err = C29_FirstError(plan, rf, cf)

\* C29: in a retention pass a failing removal or compression does not stop
\* the others, and the pass returns the first error met (none if none):
\* whenever the worker is about to run a pass, this is so for every list
\* oldLogFiles may return, every set of failing removals and every failing
\* compression (failing before dst is opened, or while copying).
C29_PassGoesOn ==
    worker = "busy" =>
        \A files \in oldLogFiles(dir) :
          \A plan \in {millPlan(files, now)} :
            \A rf \in SUBSET (1..Len(plan.remove)) :
              \A cf \in {[at |-> 0, step |-> "none"]} \cup
                        [at : 1..Len(plan.compress), step : {"opensrc", "copy"}] :
                \A after \in {millRunOnce(dir, files, now, rf, cf)} :
                  C29_Outcome(plan, after, millErr(files, now, rf, cf), rf, cf)

\* A pass met a failing removal first: it returned that error, and it still
\* removed another file and compressed a backup.
C29_Witness ==
    /\ last.op = "mill" /\ last.err = "remove"
    /\ \E name \in last.gone : ~HasSuffix(name, gz) /\ ~Exists(dir, name \o gz)
    /\ \E name \in last.gone : Exists(dir, name \o gz) /\ dir[name \o gz].mtime = now

\* The instant at which the timestamp-mode backup named n was rotated: the
\* wall clock reading in its name, taken back from the zone it was written in.
C30_RotatedAt(n) ==
    timeFromName(TrimSuffix(n, gz), prefixAndExt.prefix, prefixAndExt.ext).t
      - (IF cfg.LocalTime THEN cfg.zone ELSE 0)

\* C30: in timestamp mode, with LocalTime or without, a pass removes a
\* backup for its age exactly when it was rotated more than MaxAge days
\* before the pass.
C30_AgeByRotationTime ==
    [][(last'.op = "mill" /\ worker = "busy" /\ cfg.timeMode /\ cfg.MaxAge > 0
        /\ cfg.MaxBackups = 0)
        => \A n \in {m \in DOMAIN dir : classify(dir, m).ok} :
             ~Exists(dir', n) <=> C30_RotatedAt(n) < now - cfg.MaxAge * cfg.day]_vars

----------------------------------------------------------------------------
(* C31..C32: the worker's lifetime, the first file. *)

\* C31: nothing closes the request channel or stops the worker.  A Close
\* leaves the channel, its pending request and the worker as they are; the
\* worker, once started, stays, and only the worker takes a request out of
\* the channel; with a fairly scheduled worker a request pending when Close
\* returns is received afterwards, and the pass it starts comes to its end.
C31_WorkerOutlivesClose ==
    /\ [][/\ last'.op = "Close" => UNCHANGED <<millCh, started, goroutines, worker>>
          /\ started => started'
          /\ goroutines' >= goroutines
          /\ millCh' < millCh => (last'.op = "start" /\ worker' = "busy")]_vars
    /\ (last.op = "Close" /\ millCh = 1) ~> (last.op = "start")
    /\ (last.op = "start") ~> (last.op = "mill")

\* The worker has received a request while the Logger holds no handle: the
\* request was sent by the call that opened the file, and was pending when
\* the Close that released the handle returned.
C31_Witness ==
    /\ last.op = "start"
    /\ worker = "busy"
    /\ file = "nil"
    /\ goroutines = 1
    /\ calls >= 1

\* A call that found no handle and no file at Filename.
C32_FirstOpen ==
    /\ calls' = calls + 1
    /\ last'.op \in {"Write", "Rotate"}
    /\ file = "nil"
    /\ ~Exists(dir, Filename)

\* C32: a Rotate, or a Write, on a Logger with no handle and no file at
\* Filename that gets as far as opening the file (it is not rejected for its
\* length and no system call before or at the open fails) creates the file
\* with the default mode 0600 and starts tracking it at size 0, so that
\* after the call the file holds exactly the bytes the call wrote (none for
\* Rotate) and size is their count; no backup is made and no other entry of
\* the directory changes.  A call that does not get that far creates
\* nothing.  The Logger starts without a handle, and only Write and Rotate
\* ever open one.
C32_FirstOpenCreatesEmpty ==
    /\ [](calls = 0 => file = "nil")
    /\ [][/\ (file = "nil" /\ file' = "open") => last'.op \in {"Write", "Rotate"}
          /\ (C32_FirstOpen /\ last'.err \in {"nil", "write"}) =>
                /\ file' = "open"
                /\ DOMAIN dir' = DOMAIN dir \cup {Filename}
                /\ \A n \in DOMAIN dir : dir'[n] = dir[n]
                /\ dir'[Filename].mode = defaultMode
                /\ ~dir'[Filename].gz
                /\ ~dir'[Filename].isDir
                /\ Len(dir'[Filename].data) = last'.n
                /\ size' = last'.n
                /\ last'.op = "Rotate" => last'.n = 0
                /\ retired' = retired
          /\ (C32_FirstOpen /\ last'.err \notin {"nil", "write"}) =>
                /\ file' = "nil"
                /\ dir' = dir
                /\ retired' = retired]_vars

\* A first call, a Rotate, has made the empty file in an empty directory.
C32_Witness ==
    /\ calls = 1
    /\ last.op = "Rotate"
    /\ last.err = "nil"
    /\ file = "open"
    /\ size = 0
    /\ DOMAIN dir = {Filename}
    /\ dir[Filename].data = <<>>
    /\ dir[Filename].mode = defaultMode
    /\ retired = <<>>

============================================================================
